---- MODULE Spec2Model ----
(***************************************************************************)
(* A model of metagit (src/metagit.py): a registry of git / git-svn        *)
(* repositories read from a config file, the per-repository operations     *)
(* exists / fetch / clone / status, and the subcommands of Main that loop  *)
(* over the registry.                                                      *)
(*                                                                         *)
(* The file system and the git executable are the environment: every       *)
(* subprocess the program starts exits with a code and an output that the  *)
(* model chooses nondeterministically.  A command line is a sequence of    *)
(* arguments; an argument is a tuple of the string pieces the program      *)
(* concatenates ('--work-tree=' + path is <<"--work-tree=", "~", "r1">>).  *)
(* Python's None / True / False are the strings "None", "True", "False".   *)
(*                                                                         *)
(* Not modelled: the add and help subcommands, the -v and -h options, the  *)
(* table Main.status prints, and the stderr of a successful subprocess     *)
(* that call() forwards (it is no warning() call).                         *)
(***************************************************************************)
EXTENDS Integers, Sequences, FiniteSets, TLC

\* ---------------------------------------------------------------- bounds
MaxRepos == 2
MaxLines == 2
MaxCommits == 2

\* ------------------------------------------------------- the environment
RepoIds == 1..MaxRepos
DirNames == <<"r1", "r2", "r3", "r4">>
ExitCodes == {0, 1}
OriginUrl == "https://x/proj.git"

\* lines of `git status --porcelain=1`, as sequences of characters
PorcelainLines == { <<"?", "?", " ", "a">>, <<" ", "M", " ", "b">> }

RECURSIVE SeqsUpTo(_, _)
SeqsUpTo(S, n) ==
    IF n = 0 THEN { <<>> }
    ELSE LET shorter == SeqsUpTo(S, n - 1)
         IN  shorter \cup { Append(s, x) : s \in { t \in shorter : Len(t) = n - 1 }, x \in S }

\* output of `git log --format=format:X` for a range of n commits:
\* one X per commit, separated (not terminated) by newlines
RECURSIVE LogOutput(_)
LogOutput(n) ==
    IF n = 0 THEN <<>>
    ELSE IF n = 1 THEN <<"X">>
    ELSE LogOutput(n - 1) \o <<"\n", "X">>

\* what the user may type at a prompt
Answers == { <<>>, <<"y">>, <<"Y", "e", "s">>, <<"n">>, <<"x", "y">> }

\* ------------------------------------------------------------- settings
MkConfig(type, origin, branch) ==
    [k \in ((IF type = "None" THEN {} ELSE {"type"})
            \cup (IF origin = "None" THEN {} ELSE {"origin"})
            \cup (IF branch = "None" THEN {} ELSE {"branch"})) |->
        IF k = "type" THEN type ELSE IF k = "origin" THEN origin ELSE branch]

Configs == { MkConfig(t, o, b) : t \in {"None", "git-svn"}, o \in {"None", OriginUrl},
                                 b \in {"None", "dev"} }

\* dict.get(key, default)
Get(config, key, default) == IF key \in DOMAIN config THEN config[key] ELSE default

\* ----------------------------------------------------------- GitRepository
expanduser(tilde_path) == <<"/home/u">> \o Tail(tilde_path)

GitRepository(tilde_path, config) ==
    [tilde_path |-> tilde_path, path |-> expanduser(tilde_path), config |-> config,
     class |-> "GitRepository"]

GitSvnRepository(tilde_path, config) ==
    [GitRepository(tilde_path, config) EXCEPT !.class = "GitSvnRepository"]

\* Config.build_repo_objects: one object per section, the class chosen by 'type'
build_repo_object(tilde_path, config) ==
    IF Get(config, "type", "git") = "git-svn"
    THEN GitSvnRepository(tilde_path, config)
    ELSE GitRepository(tilde_path, config)

Word(s) == <<s>>

IsCloneArgs(args) ==
    \/ args[1] = Word("clone")
    \/ Len(args) >= 2 /\ SubSeq(args, 1, 2) = <<Word("svn"), Word("clone")>>

\* the command line GitRepository.call builds
git_cmd(r, args) ==
    <<Word("git")>>
    \o (IF ~IsCloneArgs(args)
        THEN << <<"--work-tree=">> \o r.path, <<"--git-dir=">> \o r.path \o <<"/.git">> >>
        ELSE <<>>)
    \o args

\* GitRepository.call without may_fail: the command that ran, the exception it
\* raises (non-zero exit: UserMessage) and the decoded stdout it returns
call(r, args, exit_code, out) ==
    [cmd |-> git_cmd(r, args), exit_code |-> exit_code,
     exc |-> IF exit_code # 0 THEN "UserMessage" ELSE "None",
     out |-> out]

\* what the log of subprocesses keeps of a call
Invocation(c) == [cmd |-> c.cmd, exit_code |-> c.exit_code, out |-> c.out]

exists(r, isdir) == r.path \in isdir

\* a default branch of "main"
main_branch_default_main(r) == Get(r.config, "branch", "main")

main_branch(r) == Get(r.config, "branch", "master")

upstream_branch(r) == IF r.class = "GitSvnRepository" THEN "git-svn" ELSE "@{u}"

\* `raise RepoMessage(...)`: the name RepoMessage is defined nowhere in the
\* program, so evaluating it raises NameError before any exception object exists
RaiseRepoMessage == "NameError"

NoCalls == <<>>

\* a clone that does not look whether the repository is there
GitRepository_clone_unconditional(r, isdir, exit_code) ==
    IF ~("origin" \in DOMAIN r.config) THEN [calls |-> NoCalls, exc |-> RaiseRepoMessage]
    ELSE LET c == call(r, <<Word("clone"), Word("-b"), Word(main_branch(r)),
                            Word(r.config["origin"]), r.path>>, exit_code, "None")
         IN  [calls |-> <<Invocation(c)>>, exc |-> c.exc]

\* GitRepository.clone
GitRepository_clone(r, isdir, exit_code) ==
    IF exists(r, isdir) THEN [calls |-> NoCalls, exc |-> "None"]
    ELSE IF ~("origin" \in DOMAIN r.config) THEN [calls |-> NoCalls, exc |-> RaiseRepoMessage]
    ELSE LET origin == r.config["origin"]
             branch == main_branch(r)
             c == call(r, <<Word("clone"), Word("-b"), Word(branch), Word(origin), r.path>>,
                       exit_code, "None")
         IN  [calls |-> <<Invocation(c)>>, exc |-> c.exc]

\* GitSvnRepository.clone
GitSvnRepository_clone(r, isdir, exit_code) ==
    IF exists(r, isdir) THEN [calls |-> NoCalls, exc |-> "None"]
    ELSE IF ~("origin" \in DOMAIN r.config) THEN [calls |-> NoCalls, exc |-> RaiseRepoMessage]
    ELSE LET origin == r.config["origin"]
             branch == main_branch(r)
         IN  IF branch # "master" THEN [calls |-> NoCalls, exc |-> RaiseRepoMessage]
             ELSE LET c == call(r, <<Word("svn"), Word("clone"), Word(origin), r.path>>,
                                exit_code, "None")
                  IN  [calls |-> <<Invocation(c)>>, exc |-> c.exc]

clone(r, isdir, exit_code) ==
    IF r.class = "GitSvnRepository"
    THEN GitSvnRepository_clone(r, isdir, exit_code)
    ELSE GitRepository_clone(r, isdir, exit_code)

\* a fetch that clones a repository that is missing
fetch_clones_missing(r, isdir, exit_code) ==
    IF exists(r, isdir)
    THEN LET c == call(r, <<Word("fetch")>>, exit_code, "None")
         IN  [calls |-> <<Invocation(c)>>, exc |-> c.exc]
    ELSE clone(r, isdir, exit_code)

\* GitRepository.fetch / GitSvnRepository.fetch
fetch(r, isdir, exit_code) ==
    IF exists(r, isdir)
    THEN LET c == call(r, IF r.class = "GitSvnRepository"
                          THEN <<Word("svn"), Word("fetch")>>
                          ELSE <<Word("fetch")>>, exit_code, "None")
         IN  [calls |-> <<Invocation(c)>>, exc |-> c.exc]
    ELSE [calls |-> NoCalls, exc |-> "None"]

\* ---------------------------------------------------------------- RepoStatus
RepoStatus ==
    [exists |-> TRUE, untracked_files |-> 0, uncommited_changes |-> 0,
     unpushed_commits |-> 0, unmerged_commits |-> 0]

\* a nonExistent() that forgets to clear the flag
nonExistent_keeps_flag == RepoStatus

nonExistent == [RepoStatus EXCEPT !.exists = FALSE]

\* line[0:2] == '??'
IsUntracked(line) == SubSeq(line, 1, IF Len(line) < 2 THEN Len(line) ELSE 2) = <<"?", "?">>

\* a count that keeps the newlines
CountMarkers_with_newlines(out) == Len(out)

\* len(out.replace('\n', ''))
CountMarkers(out) == Len(SelectSeq(out, LAMBDA ch : ch # "\n"))

\* GitRepository.status; rs is <<the RepoStatus returned>>, or <<>> when an
\* exception leaves the method.  env holds what the three subprocesses do:
\* st_exit / lines for `status --porcelain=1`, log1_exit / n1 for the log of
\* main..upstream, log2_exit / n2 for the log of upstream..main
status(r, isdir, env) ==
    IF ~(r.path \in isdir)
    THEN [calls |-> NoCalls, exc |-> "None", rs |-> <<nonExistent>>, warnings |-> 0]
    ELSE
    LET st == call(r, <<Word("status"), Word("--porcelain=1")>>, env.st_exit, env.lines)
        rs1 == [RepoStatus EXCEPT
                  !.untracked_files = Len(SelectSeq(st.out, IsUntracked)),
                  !.uncommited_changes = Len(SelectSeq(st.out, LAMBDA l : ~IsUntracked(l)))]
        log1 == call(r, <<Word("log"), Word("--format=format:X"),
                          <<main_branch(r), "..", upstream_branch(r)>> >>,
                     env.log1_exit, LogOutput(env.n1))
        rs2 == [rs1 EXCEPT !.unmerged_commits = CountMarkers(log1.out)]
        log2 == call(r, <<Word("log"), Word("--format=format:X"),
                          <<upstream_branch(r), "..", main_branch(r)>> >>,
                     env.log2_exit, LogOutput(env.n2))
        rs3 == [rs2 EXCEPT !.unpushed_commits = CountMarkers(log2.out)]
    IN  IF st.exc # "None"
        THEN [calls |-> <<Invocation(st)>>, exc |-> st.exc, rs |-> <<>>, warnings |-> 0]
        ELSE IF log1.exc # "None"
        THEN [calls |-> <<Invocation(st), Invocation(log1)>>, exc |-> "None",
              rs |-> <<rs1>>, warnings |-> 1]
        ELSE IF log2.exc # "None"
        THEN [calls |-> <<Invocation(st), Invocation(log1), Invocation(log2)>>, exc |-> "None",
              rs |-> <<rs2>>, warnings |-> 1]
        ELSE [calls |-> <<Invocation(st), Invocation(log1), Invocation(log2)>>, exc |-> "None",
              rs |-> <<rs3>>, warnings |-> 0]

StatusEnv(st_exit, lines, log1_exit, n1, log2_exit, n2) ==
    [st_exit |-> st_exit, lines |-> lines, log1_exit |-> log1_exit, n1 |-> n1,
     log2_exit |-> log2_exit, n2 |-> n2]

\* the behaviours of git that status() can tell apart: a subprocess that is
\* never started (an earlier one failed) gets exit code 0 and no output
StatusEnvs ==
    LET L == SeqsUpTo(PorcelainLines, MaxLines)
        C == 0..MaxCommits
    IN  { StatusEnv(1, <<>>, 0, 0, 0, 0) }
        \cup { StatusEnv(0, l, 1, 0, 0, 0) : l \in L }
        \cup { StatusEnv(0, l, 0, n, 1, 0) : l \in L, n \in C }
        \cup { StatusEnv(0, l, 0, n, 0, m) : l \in L, n \in C, m \in C }

\* the same exit codes with one sample output each
SampleStatusEnvs ==
    { e \in StatusEnvs : /\ e.st_exit = 0 => e.lines = << <<"?", "?", " ", "a">> >>
                         /\ (e.st_exit = 0 /\ e.log1_exit = 0) => e.n1 = 1
                         /\ (e.st_exit = 0 /\ e.log1_exit = 0 /\ e.log2_exit = 0) => e.n2 = 1 }

\* ------------------------------------------------------------------- ask
Lower(ch) == IF ch = "Y" THEN "y" ELSE ch

\* a prompt whose empty answer means yes
ask_empty_is_yes(answer, default) ==
    IF Len(answer) < 1 THEN "True"
    ELSE IF Lower(answer[1]) = "y" THEN "True" ELSE "False"

ask(answer, default) ==
    IF Len(answer) < 1 THEN default
    ELSE IF Lower(answer[1]) = "y" THEN "True" ELSE "False"

Truthy(v) == v = "True"

\* ------------------------------------------------- effect of a subprocess
\* a clone that exits 0 leaves a directory at its target path (the last
\* argument); no other command creates or removes a repository directory
IsCloneCmd(cmd) == IsCloneArgs(Tail(cmd))

CloneTargets(cs) ==
    { cs[k].cmd[Len(cs[k].cmd)] : k \in { j \in 1..Len(cs) : IsCloneCmd(cs[j].cmd) /\ cs[j].exit_code = 0 } }

isdir_after(isdir, cs) == isdir \cup CloneTargets(cs)

\* ------------------------------------------------------------------ state
VARIABLES
    repo_objects,   \* Config.repo_objects: the registry, in config-file order
    isdir,          \* the file system: the paths that are directories
    isdir0,         \* isdir when the current operation started
    op,             \* the operation in progress or last finished
    pc,             \* "idle", "loop" (inside a subcommand's for loop), "done"
    idx,            \* position of the for loop in repo_objects
    calls,          \* subprocesses started by the operation, in order
    stdout,         \* lines the operation printed to standard output
    warnings,       \* number of warning() calls of the operation
    asked,          \* prompts of ask() of the operation, with their answers and
                    \* the number of subprocesses started before the prompt
    rs,             \* <<the RepoStatus the last status() returned>>, else <<>>
    raised,         \* exception that left the operation ("None" if none)
    exit_status,    \* exit status of the process (-1: none yet / not a process)
    cloned_all      \* the operation before this one was `clone` without -i,
                    \* began with no repository present and exited 0

vars == <<repo_objects, isdir, isdir0, op, pc, idx, calls, stdout, warnings, asked, rs,
          raised, exit_status, cloned_all>>

tilde_path(i) == <<"~", DirNames[i]>>

Registries(ids) ==
    { [i \in ids |-> build_repo_object(tilde_path(i), f[i])] : f \in [ids -> Configs] }

Paths == { repo_objects[i].path : i \in DOMAIN repo_objects }

InitWith(ids) ==
    /\ repo_objects \in Registries(ids)
    /\ isdir \in SUBSET { expanduser(tilde_path(i)) : i \in ids }
    /\ isdir0 = isdir
    /\ op = [name |-> "None", argv |-> <<>>, repo |-> 0]
    /\ pc = "idle"
    /\ idx = 0
    /\ calls = NoCalls
    /\ stdout = <<>>
    /\ warnings = 0
    /\ asked = <<>>
    /\ rs = <<>>
    /\ raised = "None"
    /\ exit_status = -1
    /\ cloned_all = FALSE

Init == InitWith(RepoIds)

\* ------------------------------------------- operations on one repository
\* r.clone(), r.fetch(), r.status() called on a repository object
BeginMethod(name, i) ==
    /\ pc = "idle"
    /\ op' = [name |-> name, argv |-> <<>>, repo |-> i]
    /\ pc' = "done"
    /\ idx' = 0
    /\ isdir0' = isdir
    /\ stdout' = <<>>
    /\ asked' = <<>>
    /\ exit_status' = -1
    /\ UNCHANGED <<repo_objects, cloned_all>>

Repo_clone(i) ==
    \E exit_code \in ExitCodes :
        LET res == clone(repo_objects[i], isdir, exit_code)
        IN  /\ BeginMethod("clone", i)
            /\ calls' = res.calls
            /\ raised' = res.exc
            /\ isdir' = isdir_after(isdir, res.calls)
            /\ warnings' = 0
            /\ rs' = <<>>

Repo_fetch(i) ==
    \E exit_code \in ExitCodes :
        LET res == fetch(repo_objects[i], isdir, exit_code)
        IN  /\ BeginMethod("fetch", i)
            /\ calls' = res.calls
            /\ raised' = res.exc
            /\ isdir' = isdir_after(isdir, res.calls)
            /\ warnings' = 0
            /\ rs' = <<>>

Repo_status(i, Envs) ==
    \E env \in Envs :
        LET res == status(repo_objects[i], isdir, env)
        IN  /\ BeginMethod("status", i)
            /\ calls' = res.calls
            /\ raised' = res.exc
            /\ isdir' = isdir_after(isdir, res.calls)
            /\ warnings' = res.warnings
            /\ rs' = res.rs

\* -------------------------------------------------------------------- Main
Argvs == { <<>>, <<"status">>, <<"fetch">>, <<"fetch", "-c">>, <<"clone">>,
           <<"clone", "-i">>, <<"fetch", "-i">>, <<"bogus">> }

cmd_dict == [clone |-> "Main.clone", status |-> "Main.status", fetch |-> "Main.fetch"]

opts_dict(method) ==
    IF method = "Main.fetch" THEN {"-c"}
    ELSE IF method = "Main.clone" THEN {"-i"}
    ELSE {}

\* Main.getopt: an option the subcommand does not declare is a GetoptError
getopt_ok(args, cmd_opts) == \A k \in 1..Len(args) : args[k] \in cmd_opts

Options(a) == IF Len(a) = 0 THEN {} ELSE { a[k] : k \in 2..Len(a) }

\* Main.__init__ / Main.run_cmd up to the call of the subcommand's method
StartMain(a) ==
    /\ pc = "idle"
    /\ op' = [name |-> "Main", argv |-> a, repo |-> 0]
    /\ isdir0' = isdir
    /\ calls' = NoCalls
    /\ warnings' = 0
    /\ asked' = <<>>
    /\ rs' = <<>>
    /\ raised' = "None"
    /\ UNCHANGED <<repo_objects, isdir, cloned_all>>
    /\ IF Len(a) >= 1 /\ ~(a[1] \in DOMAIN cmd_dict)
       THEN \* unknown command
            /\ stdout' = << <<"Unknown command">> >>
            /\ pc' = "done" /\ idx' = 0 /\ exit_status' = 1
       ELSE IF Len(a) >= 1 /\ ~getopt_ok(Tail(a), opts_dict(cmd_dict[a[1]]))
       THEN \* getopt.GetoptError caught in run_cmd
            /\ stdout' = <<>>
            /\ pc' = "done" /\ idx' = 0 /\ exit_status' = 1
       ELSE /\ stdout' = <<>>
            /\ pc' = "loop" /\ idx' = 1 /\ exit_status' = -1

\* the method Main dispatched to; no argument at all runs self.status([])
Method == IF Len(op.argv) = 0 THEN "Main.status" ELSE cmd_dict[op.argv[1]]

\* whether the method runs inside run_cmd's try block
InRunCmd == Len(op.argv) >= 1

\* a loop that reports a failure and goes on with the next repository
EndIteration_continues(exc, out) ==
    /\ stdout' = IF exc # "None" THEN Append(out, <<"Error: ", "Command failed">>) ELSE out
    /\ raised' = "None"
    /\ IF idx = Len(repo_objects)
       THEN pc' = "done" /\ idx' = idx /\ exit_status' = (IF exc # "None" THEN 1 ELSE 0)
       ELSE pc' = "loop" /\ idx' = idx + 1 /\ exit_status' = -1

\* how an iteration of a subcommand's loop ends: an exception leaves the
\* method; run_cmd catches UserMessage, prints "Error: ..." and returns 1;
\* anything else (and anything outside run_cmd) ends the process with a
\* traceback; after the last repository the method returns None
EndIteration(exc, out) ==
    IF exc # "None"
    THEN /\ pc' = "done"
         /\ idx' = idx
         /\ IF InRunCmd /\ exc = "UserMessage"
            THEN /\ stdout' = Append(out, <<"Error: ", "Command failed">>)
                 /\ raised' = "None"
                 /\ exit_status' = 1
            ELSE /\ stdout' = out
                 /\ raised' = exc
                 /\ exit_status' = 1
    ELSE /\ stdout' = out
         /\ raised' = "None"
         /\ IF idx = Len(repo_objects)
            THEN pc' = "done" /\ idx' = idx /\ exit_status' = 0
            ELSE pc' = "loop" /\ idx' = idx + 1 /\ exit_status' = -1

\* one iteration of the loop of Main.clone
Main_clone ==
    /\ pc = "loop" /\ Method = "Main.clone"
    /\ LET r == repo_objects[idx]
           interactive == "-i" \in Options(op.argv)
       IN  IF exists(r, isdir)
           THEN /\ EndIteration("None", Append(stdout, r.tilde_path \o <<" exists">>))
                /\ UNCHANGED <<isdir, calls, asked>>
           ELSE \E answer \in (IF interactive THEN Answers ELSE { <<>> }),
                   exit_code \in ExitCodes :
                  LET yes == IF ~interactive THEN TRUE ELSE Truthy(ask(answer, "None"))
                      res == IF yes THEN clone(r, isdir, exit_code)
                             ELSE [calls |-> NoCalls, exc |-> "None"]
                  IN  /\ asked' = IF interactive
                                  THEN Append(asked, [repo |-> idx, answer |-> answer,
                                                      ncalls |-> Len(calls)])
                                  ELSE asked
                      /\ calls' = calls \o res.calls
                      /\ isdir' = isdir_after(isdir, res.calls)
                      /\ EndIteration(res.exc, stdout)
    /\ UNCHANGED <<repo_objects, isdir0, op, warnings, rs, cloned_all>>

\* an option parse that turns cloning on whatever the options are
clone_if_necessary_always(options) == TRUE

\* Main.fetch: -c among the options
clone_if_necessary(options) == "-c" \in options

\* one iteration of the loop of Main.fetch
Main_fetch ==
    /\ pc = "loop" /\ Method = "Main.fetch"
    /\ LET r == repo_objects[idx]
       IN  \E exit_code \in ExitCodes :
             IF exists(r, isdir)
             THEN LET res == fetch(r, isdir, exit_code)
                  IN  /\ calls' = calls \o res.calls
                      /\ isdir' = isdir_after(isdir, res.calls)
                      /\ EndIteration(res.exc, stdout)
             ELSE IF clone_if_necessary(Options(op.argv))
             THEN LET res == clone(r, isdir, exit_code)
                  IN  /\ calls' = calls \o res.calls
                      /\ isdir' = isdir_after(isdir, res.calls)
                      /\ EndIteration(res.exc, stdout)
             ELSE /\ EndIteration("None", Append(stdout, r.tilde_path \o <<" does not exist">>))
                  /\ UNCHANGED <<isdir, calls>>
    /\ UNCHANGED <<repo_objects, isdir0, op, warnings, asked, rs, cloned_all>>

\* one iteration of the loop of Main.status: r.status() and a table row
Main_status ==
    /\ pc = "loop" /\ Method = "Main.status"
    /\ \E env \in SampleStatusEnvs :
         LET res == status(repo_objects[idx], isdir, env)
         IN  /\ calls' = calls \o res.calls
             /\ isdir' = isdir_after(isdir, res.calls)
             /\ warnings' = warnings + res.warnings
             /\ rs' = res.rs
             /\ EndIteration(res.exc, stdout)
    /\ UNCHANGED <<repo_objects, isdir0, op, asked, cloned_all>>

\* the operation is over (the process has exited); the file system stays
Exit ==
    /\ pc = "done"
    /\ pc' = "idle"
    /\ cloned_all' = (/\ op.name = "Main" /\ op.argv = <<"clone">>
                      /\ isdir0 = {} /\ exit_status = 0)
    /\ isdir0' = isdir
    /\ op' = [name |-> "None", argv |-> <<>>, repo |-> 0]
    /\ idx' = 0
    /\ calls' = NoCalls
    /\ stdout' = <<>>
    /\ warnings' = 0
    /\ asked' = <<>>
    /\ rs' = <<>>
    /\ raised' = "None"
    /\ exit_status' = -1
    /\ UNCHANGED <<repo_objects, isdir>>

Next ==
    \/ \E i \in DOMAIN repo_objects : Repo_clone(i)
    \/ \E i \in DOMAIN repo_objects : Repo_fetch(i)
    \/ \E i \in DOMAIN repo_objects : Repo_status(i, SampleStatusEnvs)
    \/ \E a \in Argvs : StartMain(a)
    \/ Main_clone
    \/ Main_fetch
    \/ Main_status
    \/ Exit

Spec == Init /\ [][Next]_vars

\* status() alone, on one repository, over every behaviour of git it can see
InitStatus == InitWith({1})

NextStatus ==
    \/ Repo_status(1, StatusEnvs)
    \/ Exit

SpecStatus == InitStatus /\ [][NextStatus]_vars

\* ================================================================ claims
Last(q) == q[Len(q)]

Count(q, ch) == Len(SelectSeq(q, LAMBDA x : x = ch))

IsClone(c) == c.cmd[2] = <<"clone">> \/ (c.cmd[2] = <<"svn">> /\ c.cmd[3] = <<"clone">>)

IsFetch(c) == Last(c.cmd) = <<"fetch">>

\* the repository a subprocess works on: the target of a clone, the work tree
\* of anything else
Targets(c, r) ==
    IF IsClone(c) THEN Last(c.cmd) = r.path ELSE c.cmd[2] = <<"--work-tree=">> \o r.path

\* the repositories the loop of the running subcommand is through with
Processed ==
    IF op.name # "Main" THEN {}
    ELSE IF pc = "loop" THEN 1..(idx - 1)
    ELSE 1..idx

\* the subprocesses the step under way has started
NewCalls == IF pc = "loop" THEN SubSeq(calls', Len(calls) + 1, Len(calls')) ELSE calls'

AllCounts(s) ==
    <<s.untracked_files, s.uncommited_changes, s.unpushed_commits, s.unmerged_commits>>

\* ---------------------------------------------------------------- C1
StatusReturned == pc = "done" /\ op.name = "status"

WasThere(i) == repo_objects[i].path \in isdir0

LogFailed(k) == Len(calls) >= k /\ calls[k].exit_code # 0

\* status() ran on an existing repository, the working-tree query succeeded
\* and one of the two range queries (2nd and 3rd subprocess) failed
RangeQueryFailed ==
    /\ StatusReturned /\ WasThere(op.repo)
    /\ Len(calls) >= 2 /\ calls[1].exit_code = 0
    /\ (LogFailed(2) \/ LogFailed(3))

CloneReturned == pc = "done" /\ op.name = "clone"

\* C2: clone() of a repository that is not there and has no 'origin' setting
\* fails with the user-message error (UserMessage, which run_cmd reports) and
\* starts no subprocess
C2_MissingOriginIsUserMessage ==
    (/\ CloneReturned /\ ~WasThere(op.repo)
     /\ ~("origin" \in DOMAIN repo_objects[op.repo].config))
        => (raised = "UserMessage" /\ calls = <<>>)

\* ---------------------------------------------------------------- C3
\* C3: status() of a repository whose path is no directory returns exists = False
\* with the four counts 0 and starts no subprocess; and no RepoStatus with
\* exists = False carries a count other than 0
C3_NonExistentIsAllZero ==
    /\ \A k \in 1..Len(rs) : ~rs[k].exists => AllCounts(rs[k]) = <<0, 0, 0, 0>>
    /\ (StatusReturned /\ ~WasThere(op.repo)) =>
          /\ raised = "None" /\ calls = <<>> /\ warnings = 0
          /\ Len(rs) = 1 /\ ~rs[1].exists /\ AllCounts(rs[1]) = <<0, 0, 0, 0>>

C3_Witness ==
    /\ StatusReturned /\ ~WasThere(op.repo)
    /\ Len(rs) = 1 /\ ~rs[1].exists /\ calls = <<>>

\* ---------------------------------------------------------------- C4
N == Len(repo_objects)

AllOrigin == \A i \in 1..N : "origin" \in DOMAIN repo_objects[i].config

DeclaredBranch(r) == IF "branch" \in DOMAIN r.config THEN r.config["branch"] ELSE "master"

MainDone(a) == pc = "done" /\ op.name = "Main" /\ op.argv = a

\* `clone` without -i has ended, begun with every repository absent
CloneAllFromNothing == MainDone(<<"clone">>) /\ isdir0 = {} /\ AllOrigin

\* `fetch` or `fetch -c` has ended, run right after such a `clone` that exited 0
FetchAllAfterCloneAll ==
    (MainDone(<<"fetch">>) \/ MainDone(<<"fetch", "-c">>)) /\ cloned_all

ExpectedClone(r) ==
    IF r.class = "GitSvnRepository"
    THEN << <<"git">>, <<"svn">>, <<"clone">>, <<r.config["origin"]>>, r.path >>
    ELSE << <<"git">>, <<"clone">>, <<"-b">>, <<DeclaredBranch(r)>>, <<r.config["origin"]>>,
            r.path >>

ExpectedFetch(r) ==
    << <<"git">>, <<"--work-tree=">> \o r.path, <<"--git-dir=">> \o r.path \o <<"/.git">> >>
    \o (IF r.class = "GitSvnRepository" THEN << <<"svn">>, <<"fetch">> >> ELSE << <<"fetch">> >>)

SkipNotice(r) == r.tilde_path \o <<" does not exist">>

Printed(line) == \E k \in 1..Len(stdout) : stdout[k] = line

FetchOf(i) == \E k \in 1..Len(calls) : IsFetch(calls[k]) /\ Targets(calls[k], repo_objects[i])

Untouched(i) == \A k \in 1..Len(calls) : ~Targets(calls[k], repo_objects[i])

NoCloneStarted == \A k \in 1..Len(calls) : ~IsClone(calls[k])

\* what fetch without -c does to repository i
FetchedOrSkipped(i) ==
    /\ WasThere(i) => (FetchOf(i) /\ ~Printed(SkipNotice(repo_objects[i])))
    /\ ~WasThere(i) => /\ Printed(SkipNotice(repo_objects[i]))
                       /\ Untouched(i)
                       /\ ~(repo_objects[i].path \in isdir)

\* C5 as stated: `fetch` without -c never starts a clone; each existing
\* repository gets a fetch, each absent one gets only a skip notice and stays absent
C5_EveryRepositoryFetchedOrSkipped ==
    MainDone(<<"fetch">>) => (NoCloneStarted /\ \A i \in 1..N : FetchedOrSkipped(i))

\* C5 amended: `fetch` without -c never starts a clone, in any registry state;
\* each repository the loop has reached gets a fetch if it exists and only a skip
\* notice, staying absent, if it does not; the loop reaches every repository
\* unless a fetch fails, and it touches no repository after the one whose fetch failed
C5_ReachedRepositoriesFetchedOrSkipped ==
    (op.name = "Main" /\ op.argv = <<"fetch">>) =>
        /\ NoCloneStarted
        /\ isdir = isdir0
        /\ \A i \in Processed : FetchedOrSkipped(i)
        /\ \A i \in (1..N) \ Processed : Untouched(i) /\ ~Printed(SkipNotice(repo_objects[i]))
        /\ (pc = "done" /\ exit_status = 0) => Processed = 1..N
        /\ (pc = "done" /\ exit_status # 0) =>
              (WasThere(idx) /\ Last(calls).exit_code # 0 /\ Targets(Last(calls), repo_objects[idx]))

C5_Witness ==
    /\ MainDone(<<"fetch">>) /\ exit_status = 0
    /\ \E i, j \in 1..N : WasThere(i) /\ FetchOf(i) /\ ~WasThere(j)
                          /\ Printed(SkipNotice(repo_objects[j]))

\* ---------------------------------------------------------------- C6
\* C6: clone() of a git-svn repository that is not there and whose declared
\* branch is not "master" fails with the user-message error (UserMessage),
\* whatever its other settings, and starts no `git svn clone`
C6_SvnBranchIsUserMessage ==
    (/\ CloneReturned /\ ~WasThere(op.repo)
     /\ repo_objects[op.repo].class = "GitSvnRepository"
     /\ DeclaredBranch(repo_objects[op.repo]) # "master")
        => (raised = "UserMessage" /\ calls = <<>>)

\* ---------------------------------------------------------------- C7
IsLogQuery(c) == Len(c.cmd) >= 4 /\ c.cmd[4] = <<"log">>

ErrorReported == Len(stdout) >= 1 /\ Last(stdout)[1] = "Error: "

\* a subprocess failed and call() raised out of the repository operation
\* (the two range queries of status() are handled inside status(), see C1)
StrictFailure ==
    /\ pc = "done" /\ op.name = "Main"
    /\ Len(calls) >= 1 /\ Last(calls).exit_code # 0 /\ ~IsLogQuery(Last(calls))

\* C7: whenever a command run under the strict policy exits non-zero during a
\* subcommand (also during the status run that is the default without a
\* subcommand), the failure is caught at the command boundary and reported as
\* "Error: ...", the rest of the subcommand is skipped and the run ends with a
\* non-zero exit status, not with an uncaught exception
C7_StrictFailureReported ==
    StrictFailure => (raised = "None" /\ ErrorReported /\ exit_status # 0)

\* ---------------------------------------------------------------- C8
CloneOf(c, p) == IsClone(c) /\ Last(c.cmd) = p

\* C8: clone() of a repository that exists returns without an error and without
\* a subprocess, for both classes; and no operation ever starts a clone for a
\* path that is a directory, so after a clone that succeeded no further clone
\* subprocess is started for that repository
C8_CloneIdempotent ==
    [][ /\ (pc = "idle" /\ op'.name = "clone" /\ repo_objects[op'.repo].path \in isdir) =>
              (calls' = <<>> /\ raised' = "None" /\ isdir' = isdir)
        /\ \A p \in isdir : \A k \in 1..Len(NewCalls) : ~CloneOf(NewCalls[k], p)
      ]_vars

C8_Witness ==
    /\ CloneReturned /\ WasThere(op.repo) /\ calls = <<>> /\ raised = "None"
    /\ repo_objects[op.repo].class = "GitSvnRepository"
    /\ "origin" \in DOMAIN repo_objects[op.repo].config

\* ---------------------------------------------------------------- C9
Affirmative(answer) == Len(answer) >= 1 /\ answer[1] \in {"y", "Y"}

AskedAbout(i) == { k \in 1..Len(asked) : asked[k].repo = i }

\* C9: in `clone -i` a repository that is not there is cloned only after the
\* prompt for it was answered with y... or Y...; an empty answer is a decline
\* that leaves it absent with no clone started; a repository that is there is
\* never asked about and never cloned, only reported as existing
C9_CloneOnlyAfterYes ==
    (op.name = "Main" /\ op.argv = <<"clone", "-i">>) =>
        /\ \A k \in 1..Len(calls) :
              /\ IsClone(calls[k])
              /\ \E i \in 1..N :
                    /\ Targets(calls[k], repo_objects[i])
                    /\ \E j \in AskedAbout(i) : /\ Affirmative(asked[j].answer)
                                              /\ asked[j].ncalls < k
        /\ \A j \in 1..Len(asked) :
              /\ ~WasThere(asked[j].repo)
              /\ Cardinality(AskedAbout(asked[j].repo)) = 1
              /\ ~Affirmative(asked[j].answer) =>
                    /\ Untouched(asked[j].repo)
                    /\ ~(repo_objects[asked[j].repo].path \in isdir)
        /\ \A i \in Processed :
              /\ WasThere(i) => /\ AskedAbout(i) = {} /\ Untouched(i)
                                /\ Printed(repo_objects[i].tilde_path \o <<" exists">>)
              /\ ~WasThere(i) => AskedAbout(i) # {}

C9_Witness ==
    /\ MainDone(<<"clone", "-i">>)
    /\ \E j, k \in 1..Len(asked) :
          /\ asked[j].answer = <<>> /\ ~(repo_objects[asked[j].repo].path \in isdir)
          /\ asked[k].answer = <<"Y", "e", "s">> /\ repo_objects[asked[k].repo].path \in isdir

\* ---------------------------------------------------------------- C10
\* the repository the step under way works on (0: none)
ActsOn ==
    IF pc = "idle" /\ op'.name \in {"clone", "fetch", "status"} THEN op'.repo
    ELSE IF pc = "loop" THEN idx
    ELSE 0

\* the step under way is status() or fetch(), alone or inside `status` / `fetch`
StatusOrFetchStep ==
    \/ pc = "idle" /\ op'.name \in {"status", "fetch"}
    \/ pc = "loop" /\ Method = "Main.status"
    \/ pc = "loop" /\ Method = "Main.fetch" /\ repo_objects[idx].path \in isdir

\* C10: over any sequence of status, fetch, clone, `fetch` and `clone`
\* operations a repository's existence changes only from absent to present and
\* only by a clone of that repository that exited 0; status() and fetch() change
\* no repository's existence, fetch() of an absent repository starts nothing,
\* no repository goes from present to absent, and an operation on one
\* repository leaves the existence of every other repository alone
C10_OnlyCloneCreates ==
    [][ /\ isdir \subseteq isdir'
        /\ \A p \in isdir' \ isdir :
              /\ ActsOn # 0 /\ repo_objects[ActsOn].path = p
              /\ \E k \in 1..Len(NewCalls) : CloneOf(NewCalls[k], p) /\ NewCalls[k].exit_code = 0
        /\ StatusOrFetchStep => isdir' = isdir
        /\ (pc = "idle" /\ op'.name = "fetch" /\ ~(repo_objects[op'.repo].path \in isdir)) =>
              (calls' = <<>> /\ raised' = "None")
      ]_vars

C10_Witness ==
    /\ MainDone(<<"fetch", "-c">>)
    /\ isdir0 # isdir /\ isdir0 # {}
    /\ \E k \in 1..Len(calls) : IsFetch(calls[k])
    /\ \E k \in 1..Len(calls) : IsClone(calls[k]) /\ calls[k].exit_code = 0

\* ---------------------------------------------------------------- C11
\* `fetch` or `clone`, with or without its option, is in its loop or has ended
FleetRun ==
    /\ op.name = "Main" /\ Len(op.argv) >= 1 /\ op.argv[1] \in {"fetch", "clone"}
    /\ pc \in {"loop", "done"} /\ idx >= 1

\* the run has ended on a failure of repository idx
Aborted == pc = "done" /\ exit_status # 0

\* the repositories the loop is through with and that did not fail
Completed == IF Aborted THEN 1..(idx - 1) ELSE Processed

RepoOf(c) == CHOOSE i \in 1..N : Targets(c, repo_objects[i])

CallsOf(i) == { k \in 1..Len(calls) : Targets(calls[k], repo_objects[i]) }

\* repository i went through its whole iteration and has what it left behind
FullyProcessed(i) ==
    LET r == repo_objects[i]
        cs == CallsOf(i)
    IN  /\ \A k \in cs : calls[k].exit_code = 0
        /\ Cardinality(cs) <= 1
        /\ WasThere(i) =>
              /\ r.path \in isdir
              /\ op.argv[1] = "fetch" => (cs # {} /\ \A k \in cs : IsFetch(calls[k]))
              /\ op.argv[1] = "clone" => cs = {}
        /\ ~WasThere(i) =>
              /\ \A k \in cs : IsClone(calls[k])
              /\ (r.path \in isdir) <=> (cs # {})
              /\ op.argv \in { <<"clone">>, <<"fetch", "-c">> } => cs # {}
              /\ op.argv = <<"fetch">> => cs = {}

\* C11: `fetch` and `clone` go through the repositories one after the other in
\* registry order and stop at the first failure: a subprocess that failed is
\* the last one started and ends the run with a non-zero exit status, no
\* subprocess is started (and no prompt shown) for a repository later in the
\* registry, whose existence is as it was, and every repository before the
\* failing one went through its whole iteration and keeps what that left
C11_AbortOnFirstFailure ==
    FleetRun =>
        /\ \A k \in 1..Len(calls) : \E i \in Processed : Targets(calls[k], repo_objects[i])
        /\ \A j, k \in 1..Len(calls) : j < k => RepoOf(calls[j]) < RepoOf(calls[k])
        /\ \A k \in 1..Len(calls) :
              calls[k].exit_code # 0 =>
                 /\ k = Len(calls) /\ Aborted
                 /\ Targets(calls[k], repo_objects[idx])
        /\ Aborted => Processed = 1..idx
        /\ \A i \in (1..N) \ Processed :
              /\ Untouched(i) /\ AskedAbout(i) = {}
              /\ (repo_objects[i].path \in isdir) <=> WasThere(i)
        /\ \A i \in Completed : FullyProcessed(i)
        /\ (pc = "done" /\ ~Aborted) => Completed = 1..N

\* the second repository's fetch failed after the first was cloned, and the
\* first is still there
C11_Witness ==
    /\ MainDone(<<"fetch", "-c">>) /\ Aborted /\ idx = 2
    /\ Len(calls) = 2
    /\ IsClone(calls[1]) /\ calls[1].exit_code = 0 /\ repo_objects[1].path \in isdir
    /\ IsFetch(calls[2]) /\ calls[2].exit_code # 0

\* the first repository's clone failed and the second, absent with an origin,
\* was left alone
C11_WitnessLater ==
    /\ MainDone(<<"clone">>) /\ Aborted /\ idx = 1 /\ N >= 2
    /\ Len(calls) = 1 /\ calls[1].exit_code # 0
    /\ ~WasThere(2) /\ "origin" \in DOMAIN repo_objects[2].config /\ Untouched(2)

====
